---- MODULE Spec2Model ----
(***************************************************************************)
(* Model of main.py: the /assess endpoint of the IAM General Context       *)
(* Assessment Agent.  A request's general_question text is decoded with    *)
(* yaml.safe_load, the inner payload is sent once to the Groq completion   *)
(* endpoint, the reply is cleaned of markdown fences, decoded, and either  *)
(* returned as it is or replaced by the fixed fallback document; the       *)
(* result is re-encoded with yaml.dump.                                    *)
(*                                                                         *)
(* Text is a sequence of tokens.  A token is one of the indicator          *)
(* characters below or a word (a run of characters that holds no indicator *)
(* other than single spaces between its parts);                            *)
(* the fence marker of three backticks is one token, so str.replace on the *)
(* characters and on the tokens remove the same occurrences.               *)
(***************************************************************************)
EXTENDS Integers, Sequences, FiniteSets, TLC

\* ------------------------------------------------------------------ text

\* The marker of three backticks (a backtick cannot be written in a string here).
FENCE == "<3 backticks>"
NL == "\n"
SP == " "
COLON == ":"
DASH == "-"
QUOTE == "'"
\* The document end marker, a word that is no scalar.
DOCEND == "..."

Indicators == {FENCE, NL, SP, COLON, DASH, QUOTE}

IsWord(tok) == tok \notin Indicators

Whitespace == {SP, NL}

\* s[from..], the empty text when from is past the end.
Drop(s, from) == IF from > Len(s) THEN <<>> ELSE SubSeq(s, from, Len(s))

StartsWith(s, p) == Len(s) >= Len(p) /\ SubSeq(s, 1, Len(p)) = p

\* Where old occurs in s.
Occurrences(s, old) ==
    {i \in 1..Len(s) : i + Len(old) - 1 <= Len(s) /\ SubSeq(s, i, i + Len(old) - 1) = old}

RECURSIVE Replace(_, _)
\* str.replace(old, ""): the scan from the left removes the leftmost
\* occurrence and goes on after its end, so the occurrences removed do not
\* overlap.
Replace(s, old) ==
    LET found == Occurrences(s, old)
    IN IF found = {} THEN s
       ELSE LET first == CHOOSE i \in found : \A j \in found : i <= j
            IN SubSeq(s, 1, first - 1) \o Replace(Drop(s, first + Len(old)), old)

RECURSIVE LStrip(_)
LStrip(s) == IF s # <<>> /\ Head(s) \in Whitespace THEN LStrip(Tail(s)) ELSE s

RECURSIVE RStrip(_)
RStrip(s) ==
    IF s # <<>> /\ s[Len(s)] \in Whitespace THEN RStrip(SubSeq(s, 1, Len(s) - 1)) ELSE s

\* str.strip()
Strip(s) == RStrip(LStrip(s))

\* The cleaning of the raw completion reply.
CleanMarkdown(raw_output) ==
    Strip(Replace(Replace(raw_output, <<FENCE, "yaml">>), <<FENCE>>))

\* `needle in text` for two str values: a substring test.
Contains(s, needle) == \E i \in 1..Len(s) : s[i] = needle


\* ------------------------------------------------------- document values

\* The values yaml.safe_load builds, each tagged with its Python type.
VNull == [t |-> "null"]
VInt(lit) == [t |-> "int", lit |-> lit]
VBool(b) == [t |-> "bool", b |-> b]
VStr(s) == [t |-> "str", s |-> s]
VList(items) == [t |-> "list", items |-> items]
\* A dict keeps its insertion order: keys[i] maps to vals[i].
VDict(keys, vals) == [t |-> "dict", keys |-> keys, vals |-> vals]

IsDict(v) == v.t = "dict"

KeySet(v) == {v.keys[i] : i \in 1..Len(v.keys)}

\* v[key] of a dict holding key.
Get(v, key) == v.vals[CHOOSE i \in 1..Len(v.keys) : v.keys[i] = key]

\* dict[key] = val: a new key is appended, a known key keeps its place.
Put(d, key, val) ==
    IF key \in KeySet(d)
    THEN VDict(d.keys, [i \in 1..Len(d.vals) |-> IF d.keys[i] = key THEN val ELSE d.vals[i]])
    ELSE VDict(Append(d.keys, key), Append(d.vals, val))

IntLiterals == {"1", "2", "3", "4", "5"}

\* ------------------------------------------------- yaml.safe_load (decode)
\* Block style on the texts of this model: one-word keys, scalars as values
\* and as list items, nested mappings by indentation.  An error carries the
\* first line of the message of the YAMLError.

Ok(v) == [ok |-> TRUE, val |-> v, err |-> <<>>, next |-> 0]
Err(msg) == [ok |-> FALSE, val |-> VNull, err |-> msg, next |-> 0]
\* A parsed node with the line that follows it; an error stays as it is.
At(res, next) == IF res.ok THEN [res EXCEPT !.next = next] ELSE res

ErrMappingValues == <<"mapping values are not allowed here">>
ErrBadStart == <<"found character that cannot start any token">>
ErrQuoteEnd == <<"found unexpected end of stream while scanning a quoted scalar">>
ErrBlockEnd == <<"expected <block end>, but found another token">>
ErrDocStart == <<"expected <document start>, but found another token">>

RECURSIVE SplitLines(_)
\* The text as its lines.
SplitLines(s) ==
    LET breaks == {i \in 1..Len(s) : s[i] = NL}
    IN IF breaks = {} THEN <<s>>
       ELSE LET first == CHOOSE i \in breaks : \A j \in breaks : i <= j
            IN <<SubSeq(s, 1, first - 1)>> \o SplitLines(Drop(s, first + 1))

\* The number of spaces a line starts with.
LeadingSpaces(line) ==
    Cardinality({i \in 1..Len(line) : \A j \in 1..i : line[j] = SP})

\* A line without the spaces around it.
StripSpaces(line) ==
    LET inked == {i \in 1..Len(line) : line[i] # SP}
    IN IF inked = {} THEN <<>>
       ELSE SubSeq(line, CHOOSE i \in inked : \A j \in inked : i <= j,
                         CHOOSE i \in inked : \A j \in inked : i >= j)

\* The lines that hold a token, each with its indentation.
ContentLines(lines) ==
    LET held == {i \in 1..Len(lines) : StripSpaces(lines[i]) # <<>>}
        nth(k) == CHOOSE i \in held : Cardinality({j \in held : j <= i}) = k
    IN [k \in 1..Cardinality(held) |->
          [ind |-> LeadingSpaces(lines[nth(k)]), body |-> StripSpaces(lines[nth(k)])]]

\* A closing "..." line ends the document.
DocumentLines(ls) ==
    IF ls # <<>> /\ ls[Len(ls)].body = <<DOCEND>> THEN SubSeq(ls, 1, Len(ls) - 1) ELSE ls

\* A ':' that ends the line or stands before a space is a value indicator.
HasValueIndicator(toks) ==
    \E i \in 1..Len(toks) :
        toks[i] = COLON /\ (i = Len(toks) \/ toks[i + 1] = SP)

\* The implicit type of a plain scalar (the resolver of the safe loader).
ResolvePlain(toks) ==
    IF Len(toks) = 1 /\ toks[1] \in IntLiterals THEN VInt(toks[1])
    ELSE IF toks = <<"true">> THEN VBool(TRUE)
    ELSE IF toks = <<"false">> THEN VBool(FALSE)
    ELSE IF toks = <<"null">> THEN VNull
    ELSE IF toks = <<"{}">> THEN VDict(<<>>, <<>>)
    ELSE IF toks = <<"[]">> THEN VList(<<>>)
    ELSE VStr(toks)

RECURSIVE ScanQuoted(_, _)
\* The rest of a single-quoted scalar after its opening quote; '' is one quote.
ScanQuoted(toks, acc) ==
    IF toks = <<>> THEN Err(ErrQuoteEnd)
    ELSE IF Head(toks) = QUOTE
         THEN IF Len(toks) >= 2 /\ toks[2] = QUOTE
              THEN ScanQuoted(Drop(toks, 3), Append(acc, QUOTE))
              ELSE IF Len(toks) = 1 THEN Ok(VStr(acc)) ELSE Err(ErrBlockEnd)
         ELSE ScanQuoted(Tail(toks), Append(acc, Head(toks)))

\* One scalar: nothing (null), a single-quoted scalar or a plain one.
ParseScalar(toks) ==
    IF toks = <<>> THEN Ok(VNull)
    ELSE IF Head(toks) = QUOTE THEN ScanQuoted(Tail(toks), <<>>)
    ELSE IF Head(toks) = FENCE THEN Err(ErrBadStart)
    ELSE IF HasValueIndicator(toks) THEN Err(ErrMappingValues)
    ELSE Ok(ResolvePlain(toks))

\* "- item"
IsItemLine(body) == Head(body) = DASH /\ (Len(body) = 1 \/ body[2] = SP)

\* "key:" or "key: value", the key one word
IsKeyLine(body) ==
    /\ Len(body) >= 2
    /\ IsWord(body[1])
    /\ body[2] = COLON
    /\ (Len(body) = 2 \/ body[3] = SP)

RECURSIVE ParseNode(_, _, _)
RECURSIVE ParseDict(_, _, _, _)
RECURSIVE ParseList(_, _, _, _)
RECURSIVE DictEntry(_, _, _, _, _)
RECURSIVE ListItem(_, _, _, _, _)

\* The value of the key of line i: on the line, or the nested block below it,
\* or the list at the key's own indentation, or nothing.
EntryValue(ls, i, ind) ==
    IF Len(ls[i].body) > 3 THEN At(ParseScalar(StripSpaces(Drop(ls[i].body, 3))), i + 1)
    ELSE IF i < Len(ls) /\ ls[i + 1].ind > ind THEN ParseNode(ls, i + 1, ls[i + 1].ind)
    ELSE IF i < Len(ls) /\ ls[i + 1].ind = ind /\ IsItemLine(ls[i + 1].body)
         THEN ParseList(ls, i + 1, ind, <<>>)
    ELSE At(Ok(VNull), i + 1)

\* The block mapping whose entries are at indentation ind, from line i on.
ParseDict(ls, i, ind, d) ==
    IF i > Len(ls) \/ ls[i].ind < ind THEN At(Ok(d), i)
    ELSE IF ls[i].ind > ind \/ ~IsKeyLine(ls[i].body) THEN Err(ErrBlockEnd)
    ELSE DictEntry(ls, ind, d, ls[i].body[1], EntryValue(ls, i, ind))

DictEntry(ls, ind, d, key, value) ==
    IF ~value.ok THEN value ELSE ParseDict(ls, value.next, ind, Put(d, key, value.val))

\* The block sequence whose items are at indentation ind, from line i on.
ParseList(ls, i, ind, items) ==
    IF i > Len(ls) \/ ls[i].ind < ind THEN At(Ok(VList(items)), i)
    ELSE IF ls[i].ind > ind THEN Err(ErrBlockEnd)
    ELSE IF ~IsItemLine(ls[i].body) THEN At(Ok(VList(items)), i)
    ELSE ListItem(ls, i, ind, items, ParseScalar(StripSpaces(Drop(ls[i].body, 2))))

ListItem(ls, i, ind, items, item) ==
    IF ~item.ok THEN item ELSE ParseList(ls, i + 1, ind, Append(items, item.val))

\* The node that starts at line i.
ParseNode(ls, i, ind) ==
    IF IsItemLine(ls[i].body) THEN ParseList(ls, i, ind, <<>>)
    ELSE IF IsKeyLine(ls[i].body) THEN ParseDict(ls, i, ind, VDict(<<>>, <<>>))
    ELSE At(ParseScalar(ls[i].body), i + 1)

\* The document is its one node: a line left over is an error.
EndOfDocument(ls, node) ==
    IF ~node.ok THEN node
    ELSE IF node.next > Len(ls) THEN Ok(node.val)
    ELSE IF HasValueIndicator(ls[node.next].body) THEN Err(ErrMappingValues)
    ELSE Err(ErrDocStart)

LoadLines(ls) ==
    IF ls = <<>> THEN Ok(VNull) ELSE EndOfDocument(ls, ParseNode(ls, 1, ls[1].ind))

\* yaml.safe_load(text): the document, or the YAMLError it raises.
yaml_safe_load(text) == LoadLines(DocumentLines(ContentLines(SplitLines(text))))

\* ------------------------------------------------------ yaml.dump (encode)

Indent(n) == [i \in 1..n |-> SP]

RECURSIVE DoubleQuotes(_)
\* Inside a single-quoted scalar a quote is written twice.
DoubleQuotes(s) ==
    IF s = <<>> THEN <<>>
    ELSE (IF Head(s) = QUOTE THEN <<QUOTE, QUOTE>> ELSE <<Head(s)>>)
         \o DoubleQuotes(Tail(s))

\* Whether the emitter may write the str without quotes.
PlainAllowed(s) ==
    /\ s # <<>>
    /\ Head(s) \notin {QUOTE, FENCE, SP, COLON}
    /\ ~(Head(s) = DASH /\ (Len(s) = 1 \/ s[2] = SP))
    /\ s[Len(s)] # SP
    /\ ~HasValueIndicator(s)
    /\ \A i \in 1..Len(s) : s[i] # NL
    /\ ResolvePlain(s) = VStr(s)

DumpScalar(v) ==
    CASE v.t = "null" -> <<"null">>
      [] v.t = "int" -> <<v.lit>>
      [] v.t = "bool" -> IF v.b THEN <<"true">> ELSE <<"false">>
      [] v.t = "str" ->
            IF PlainAllowed(v.s) THEN v.s ELSE <<QUOTE>> \o DoubleQuotes(v.s) \o <<QUOTE>>

RECURSIVE DumpItems(_, _, _)
\* The items of a list, one "- item" line each.
DumpItems(items, k, ind) ==
    IF k > Len(items) THEN <<>>
    ELSE Indent(ind) \o <<DASH, SP>> \o DumpScalar(items[k]) \o <<NL>>
         \o DumpItems(items, k + 1, ind)

RECURSIVE DumpDict(_, _, _)
RECURSIVE DumpEntry(_, _)

\* Block style, the keys in insertion order (sort_keys=False).
DumpDict(d, k, ind) ==
    IF k > Len(d.keys) THEN <<>>
    ELSE Indent(ind) \o <<d.keys[k], COLON>> \o DumpEntry(d.vals[k], ind)
         \o DumpDict(d, k + 1, ind)

\* What follows "key:": a nested mapping two spaces deeper, a list at the
\* key's own indentation, a scalar on the line.
DumpEntry(v, ind) ==
    CASE v.t = "dict" /\ v.keys # <<>> -> <<NL>> \o DumpDict(v, 1, ind + 2)
      [] v.t = "dict" /\ v.keys = <<>> -> <<SP, "{}", NL>>
      [] v.t = "list" /\ v.items # <<>> -> <<NL>> \o DumpItems(v.items, 1, ind)
      [] v.t = "list" /\ v.items = <<>> -> <<SP, "[]", NL>>
      [] OTHER -> <<SP>> \o DumpScalar(v) \o <<NL>>

\* yaml.dump(v, sort_keys=False): a dict or a list in block style, a scalar
\* followed by the document end marker.
yaml_dump(v) ==
    CASE v.t = "dict" -> IF v.keys = <<>> THEN <<"{}", NL>> ELSE DumpDict(v, 1, 0)
      [] v.t = "list" -> IF v.items = <<>> THEN <<"[]", NL>> ELSE DumpItems(v.items, 1, 0)
      [] OTHER -> DumpScalar(v) \o <<NL, DOCEND, NL>>

\* ----------------------------------------------------------- the inputs

\* The number of /assess requests the host framework has in flight.
NumRequests == 2

Requests == 1..NumRequests

KEY == "general_question"

\* Texts of the general_question field of a request body.
WrappedDict == <<KEY, COLON, NL, SP, SP, "level", COLON, SP, "3", NL>>
WrappedScalar == <<KEY, COLON, SP, "Defined", NL>>
Unwrapped == <<"level", COLON, SP, "3", NL>>
EmptyText == <<>>
BareKey == <<KEY>>
BareWord == <<"level">>
ListWithKey == <<DASH, SP, KEY, NL>>
ListWithoutKey == <<DASH, SP, "level", NL>>
BareNumber == <<"3">>
Malformed == <<KEY, COLON, SP, "level", COLON, SP, "3">>

InboundTexts ==
    {WrappedDict, WrappedScalar, Unwrapped, EmptyText, BareKey, BareWord,
     ListWithKey, ListWithoutKey, BareNumber, Malformed}

FourKeys ==
    <<"gen_context_update", "domain_influence", "assessment_rationale", "confidence_level">>

\* The response format of SYSTEM_CONTEXT, filled in.
TemplateDoc ==
    VDict(FourKeys,
      << VDict(<<"governance_maturity_signal", "certification_integration",
                 "exception_handling", "audit_readiness_level">>,
               << VStr(<<"Defined">>),
                  VDict(<<"authoritative_data_used", "role_alignment_enforced">>,
                        <<VBool(TRUE), VBool(FALSE)>>),
                  VDict(<<"risk_assessed", "documented">>, <<VBool(TRUE), VBool(TRUE)>>),
                  VStr(<<"Medium">>) >>),
         VDict(<<"access_governance", "monitoring_and_audit">>,
               <<VStr(<<"Certification is repeatable">>), VStr(<<"Evidence is partial">>)>>),
         VList(<<VStr(<<"Level 3", COLON, SP, "defined and documented">>)>>),
         VStr(<<"Medium">>) >>)

\* Texts the model may answer with, before any fence is put around them.
ReplyTemplate == yaml_dump(TemplateDoc)
ReplyOtherKeys == <<"summary", COLON, SP, "Defined", NL>>
ReplyScalar == <<"Low">>
ReplyList == <<DASH, SP, "Low", NL>>
ReplyEmpty == <<>>
ReplyMalformed == <<"confidence_level", COLON, SP, "Low", COLON, SP, "High">>
ReplyInnerFence ==
    <<"confidence_level", COLON, SP, "Low", NL, FENCE, NL, "summary", COLON, SP, "ok", NL>>

\* A fenced block: the opening marker with its language tag, the text, the
\* closing marker.
Fenced(tag, text) == <<FENCE>> \o tag \o <<NL>> \o text \o <<FENCE, NL>>

LanguageTags == {<<>>, <<"yaml">>, <<"json">>}

ReplyTexts ==
    {ReplyTemplate, ReplyOtherKeys, ReplyScalar, ReplyList, ReplyEmpty, ReplyMalformed,
     ReplyInnerFence}
    \cup {Fenced(tag, text) : tag \in LanguageTags, text \in {ReplyTemplate, ReplyInnerFence}}
    \cup {Fenced(<<"yaml">>, text) :
            text \in {ReplyOtherKeys, ReplyScalar, ReplyEmpty, ReplyMalformed}}

\* What requests.post can end in: an exception, or a response with a status,
\* a body text and the shape of the JSON in it.
NoOutcome == [kind |-> "none", status_code |-> 0, text |-> <<>>, shape |-> "", content |-> <<>>]
Raised(kind) == [NoOutcome EXCEPT !.kind = kind]
ErrorResponse(code, text, shape) ==
    [NoOutcome EXCEPT !.kind = "response", !.status_code = code, !.text = text,
                      !.shape = shape]
OkResponse(shape, content) ==
    [NoOutcome EXCEPT !.kind = "response", !.status_code = 200,
                      !.shape = shape, !.content = content]

ErrorBody == <<"{", QUOTE, "error", QUOTE, COLON, SP, QUOTE, "Invalid API Key", QUOTE, "}">>

UpstreamOutcomes ==
    {Raised("ConnectionError"), Raised("Timeout")}
    \cup {ErrorResponse(code, ErrorBody, "no_choices") : code \in {401, 503}}
    \cup {ErrorResponse(code, <<>>, "not_json") : code \in {204, 503}}
    \cup {OkResponse(shape, <<>>) :
            shape \in {"not_json", "no_choices", "empty_choices", "null_content"}}
    \cup {OkResponse("content", content) : content \in ReplyTexts}

\* ------------------------------------------------------ process_with_groq

VARIABLES
    GROQ_API_URL,   \* the endpoint, set when the module is loaded
    GROQ_API_KEY,   \* the credential read from the environment at startup
    exception_str,  \* how the installed framework renders str(HTTPException)
    pc,             \* per request: "idle", "waiting" (blocked in requests.post), "done"
    request,        \* per request: the general_question text of its body
    outbound,       \* per request: the calls posted to the completion endpoint
    upstream,       \* per request: what its call ended in
    cleaned,        \* per request: the texts handed to the decoder of the reply
    response        \* per request: the answer of /assess

vars ==
    <<GROQ_API_URL, GROQ_API_KEY, exception_str, pc, request, outbound, upstream,
      cleaned, response>>

PREFIX == <<"Agent processing error", COLON, SP>>
GROQ_PREFIX == <<"Groq API error", COLON, SP>>

\* The document of the except branch.
Fallback(message) ==
    VDict(FourKeys,
      << VDict(<<"governance_maturity_signal", "certification_integration",
                 "exception_handling", "audit_readiness_level">>,
               << VStr(<<"Unknown">>),
                  VDict(<<"authoritative_data_used", "role_alignment_enforced">>,
                        <<VBool(FALSE), VBool(FALSE)>>),
                  VDict(<<"risk_assessed", "documented">>, <<VBool(FALSE), VBool(FALSE)>>),
                  VStr(<<"Low">>) >>),
         VDict(<<"access_governance", "monitoring_and_audit">>,
               << VStr(<<"Unable to determine due to processing error">>),
                  VStr(<<"Unable to determine due to processing error">>) >>),
         VList(<<VStr(PREFIX \o message)>>),
         VStr(<<"Low">>) >>)

\* The user turn of the payload.
UserPrompt(question_yaml) == yaml_dump(VDict(<<KEY>>, <<question_yaml>>))

\* The call handed to requests.post.
Payload(question_yaml, url, key) ==
    [url |-> url, authorization |-> <<"Bearer", SP, key>>,
     user_prompt |-> UserPrompt(question_yaml)]

\* requests.post with two calls on the wire: an adapter that retries.
PostTwice(calls, payload) == Append(Append(calls, payload), payload)

\* requests.post: one call on the wire.
Post(calls, payload) == Append(calls, payload)

\* A status check that lets the client errors through.
IsServerError(code) == code >= 500

\* response.status_code != 200
IsErrorStatus(code) == code # 200

\* A type check that lets everything through.
IsInstanceAny(parsed) == TRUE

\* isinstance(parsed_yaml, dict)
IsInstanceDict(parsed) == IsDict(parsed)

\* The message of the exception that response.json(), the extraction of
\* choices[0].message.content or its cleaning raises for a body that is not
\* of the expected shape.
ShapeError(shape) ==
    CASE shape = "not_json" -> <<"Expecting value", COLON, SP, "line 1 column 1 (char 0)">>
      [] shape = "no_choices" -> <<QUOTE, "choices", QUOTE>>
      [] shape = "empty_choices" -> <<"list index out of range">>
      [] OTHER ->
            <<QUOTE, "NoneType", QUOTE, SP, "object has no attribute", SP,
              QUOTE, "replace", QUOTE>>

\* The parsed reply: returned when it is a dict, an exception otherwise.
CheckParsed(parsed_yaml) ==
    IF ~parsed_yaml.ok THEN parsed_yaml
    ELSE IF ~IsInstanceDict(parsed_yaml.val) THEN Err(<<"LLM response is not valid YAML">>)
    ELSE Ok(parsed_yaml.val)

\* The try block from the return of requests.post on: the parsed dict, or the
\* str() of the exception raised.
TryBlock(outcome) ==
    IF outcome.kind = "ConnectionError" THEN Err(<<"Connection refused">>)
    ELSE IF outcome.kind = "Timeout" THEN Err(<<"Read timed out. (read timeout=60)">>)
    ELSE IF IsErrorStatus(outcome.status_code) THEN Err(GROQ_PREFIX \o outcome.text)
    ELSE IF outcome.shape # "content" THEN Err(ShapeError(outcome.shape))
    ELSE CheckParsed(yaml_safe_load(CleanMarkdown(outcome.content)))

\* The texts the try block hands to yaml.safe_load: none when it raises before.
CleanedBy(outcome) ==
    IF outcome.kind = "response" /\ ~IsErrorStatus(outcome.status_code)
       /\ outcome.shape = "content"
    THEN <<CleanMarkdown(outcome.content)>>
    ELSE <<>>

\* An except branch that raises again.
ExceptReraise(tried) == tried

\* except Exception as e: every exception of the try block becomes the
\* fallback document.
ExceptBranch(tried) == Ok(Fallback(tried.err))

TryExcept(tried) == IF tried.ok THEN tried ELSE ExceptBranch(tried)

\* process_with_groq once requests.post is over: what it returns (ok) or the
\* exception that leaves it.
process_with_groq(outcome) == TryExcept(TryBlock(outcome))

\* --------------------------------------------------------- assess_question

Answer(status_code, body, detail) ==
    [status_code |-> status_code, body |-> body, detail |-> detail]

NoAnswer == Answer(0, <<>>, <<>>)

MISSING == "Missing general_question key"

\* An exception raised in the try block of assess_question.
Raise(type, status_code, message) ==
    [ok |-> FALSE, val |-> VNull, type |-> type, status_code |-> status_code,
     message |-> message]

Data(question_data) ==
    [ok |-> TRUE, val |-> question_data, type |-> "", status_code |-> 0, message |-> <<>>]

NotIterable(type) == <<"argument of type", SP, QUOTE, type, QUOTE, SP, "is not iterable">>

\* `"general_question" in question_wrapper`: a key of a dict, an item of a
\* list, a substring of a str.
KeyIn(question_wrapper) ==
    CASE question_wrapper.t = "dict" -> KEY \in KeySet(question_wrapper)
      [] question_wrapper.t = "list" ->
            \E i \in 1..Len(question_wrapper.items) :
                question_wrapper.items[i] = VStr(<<KEY>>)
      [] question_wrapper.t = "str" -> Contains(question_wrapper.s, KEY)
      [] OTHER -> FALSE

\* question_wrapper["general_question"]
Index(question_wrapper) ==
    CASE question_wrapper.t = "dict" /\ KEY \in KeySet(question_wrapper) ->
            Data(Get(question_wrapper, KEY))
      [] question_wrapper.t = "dict" -> Raise("KeyError", 0, <<QUOTE, KEY, QUOTE>>)
      [] question_wrapper.t = "str" ->
            Raise("TypeError", 0, <<"string indices must be integers">>)
      [] OTHER ->
            Raise("TypeError", 0, <<"list indices must be integers or slices, not str">>)

\* A lookup that takes a missing key for an empty payload.
KeyLookup(question_wrapper) ==
    IF question_wrapper.t \in {"null", "int", "bool"}
    THEN Raise("TypeError", 0, NotIterable(question_wrapper.t))
    ELSE IF question_wrapper.t = "dict" /\ ~KeyIn(question_wrapper) THEN Data(VNull)
    ELSE Index(question_wrapper)

\* Lines 192 to 195: the inner payload, the HTTPException for a wrapper
\* without the key, a TypeError for a wrapper that is not iterable.
KeyCheck(question_wrapper) ==
    IF question_wrapper.t = "null" THEN Raise("TypeError", 0, NotIterable("NoneType"))
    ELSE IF question_wrapper.t \in {"int", "bool"}
         THEN Raise("TypeError", 0, NotIterable(question_wrapper.t))
    ELSE IF KeyIn(question_wrapper) THEN Index(question_wrapper)
    ELSE Raise("HTTPException", 400, <<MISSING>>)

Loaded(loaded) ==
    IF ~loaded.ok THEN Raise("YAMLError", 0, loaded.err) ELSE KeyCheck(loaded.val)

\* Lines 190 to 195: the inner payload, or the exception raised on the way.
Validate(text) == Loaded(yaml_safe_load(text))

\* str(e): an HTTPException renders as nothing or as "status: detail",
\* depending on the installed framework; any other exception as its message.
Str(e, style) ==
    IF e.type = "HTTPException"
    THEN IF style = "empty" THEN <<>>
         ELSE <<ToString(e.status_code), COLON, SP>> \o e.message
    ELSE e.message

\* except Exception as e: raise HTTPException(status_code=500, detail=str(e))
ExceptHandler(e, style) == Answer(500, <<>>, Str(e, style))

\* Lines 197 to 208: the assessment encoded and returned with the default
\* status; an exception out of process_with_groq goes to the handler's except.
Respond(assessment, style) ==
    IF assessment.ok THEN Answer(200, yaml_dump(assessment.val), <<>>)
    ELSE ExceptHandler(Raise("Exception", 0, assessment.err), style)

\* What the handler computes from its inputs alone, computed once.
Validated == [text \in InboundTexts |-> Validate(text)]
Handed == [outcome \in UpstreamOutcomes |-> CleanedBy(outcome)]
Responded ==
    [outcome \in UpstreamOutcomes |->
        [style \in {"empty", "status: detail"} |->
            Respond(process_with_groq(outcome), style)]]

Begin(r, text, question_data) ==
    /\ request' = [request EXCEPT ![r] = text]
    /\ IF question_data.ok
       THEN /\ outbound' = [outbound EXCEPT ![r] =
                  Post(@, Payload(question_data.val, GROQ_API_URL, GROQ_API_KEY))]
            /\ pc' = [pc EXCEPT ![r] = "waiting"]
            /\ UNCHANGED response
       ELSE /\ response' = [response EXCEPT ![r] = ExceptHandler(question_data, exception_str)]
            /\ pc' = [pc EXCEPT ![r] = "done"]
            /\ UNCHANGED outbound

\* An end of the call that also overwrites what the other finished requests
\* were answered, as a buffer shared between the requests would.
AssessEndShared(r) ==
    /\ pc[r] = "waiting"
    /\ \E outcome \in UpstreamOutcomes :
         /\ upstream' = [upstream EXCEPT ![r] = outcome]
         /\ cleaned' = [cleaned EXCEPT ![r] = Handed[outcome]]
         /\ response' = [q \in Requests |->
               IF q = r \/ pc[q] = "done" THEN Responded[outcome][exception_str]
               ELSE response[q]]
    /\ pc' = [pc EXCEPT ![r] = "done"]
    /\ UNCHANGED <<GROQ_API_URL, GROQ_API_KEY, exception_str, request, outbound>>

\* The handler up to its blocking call: an invalid body is answered at once,
\* a valid one posts its payload and waits.
AssessBegin(r) ==
    /\ pc[r] = "idle"
    /\ \E text \in InboundTexts : Begin(r, text, Validated[text])
    /\ UNCHANGED <<GROQ_API_URL, GROQ_API_KEY, exception_str, upstream, cleaned>>

\* The handler from the end of its call on: the reply is interpreted, the
\* assessment encoded and returned.
AssessEnd(r) ==
    /\ pc[r] = "waiting"
    /\ \E outcome \in UpstreamOutcomes :
         /\ upstream' = [upstream EXCEPT ![r] = outcome]
         /\ cleaned' = [cleaned EXCEPT ![r] = Handed[outcome]]
         /\ response' = [response EXCEPT ![r] = Responded[outcome][exception_str]]
    /\ pc' = [pc EXCEPT ![r] = "done"]
    /\ UNCHANGED <<GROQ_API_URL, GROQ_API_KEY, exception_str, request, outbound>>

Init ==
    /\ GROQ_API_URL = "https://api.groq.com/openai/v1/chat/completions"
    /\ GROQ_API_KEY = "PROMPT_GROQ_KEY"
    /\ exception_str \in {"empty", "status: detail"}
    /\ pc = [r \in Requests |-> "idle"]
    /\ request = [r \in Requests |-> <<>>]
    /\ outbound = [r \in Requests |-> <<>>]
    /\ upstream = [r \in Requests |-> NoOutcome]
    /\ cleaned = [r \in Requests |-> <<>>]
    /\ response = [r \in Requests |-> NoAnswer]

Next == \E r \in Requests : AssessBegin(r) \/ AssessEnd(r)

Spec == Init /\ [][Next]_vars

\* ------------------------------------------------------------ properties

\* What a reader of the texts of a run decodes them to.
DecodedTexts ==
    InboundTexts
    \cup {Handed[outcome][1] : outcome \in {o \in UpstreamOutcomes : Handed[o] # <<>>}}
    \cup {Responded[outcome][style].body :
            outcome \in UpstreamOutcomes, style \in {"empty", "status: detail"}}

Decoded == [text \in DecodedTexts |-> yaml_safe_load(text)]

Done(r) == pc[r] = "done"

\* The inbound text decodes to a mapping.
DecodesToMapping(text) == Decoded[text].ok /\ IsDict(Decoded[text].val)

\* The inbound text decodes to a mapping with a general_question key.
WellFormed(text) == DecodesToMapping(text) /\ KEY \in KeySet(Decoded[text].val)

\* The inbound text decodes to a mapping without a general_question key.
LacksKey(text) == DecodesToMapping(text) /\ KEY \notin KeySet(Decoded[text].val)

IsClientError(answer) == answer.status_code \in 400..499

IsSuccess(answer) == answer.status_code \in 200..299

\* The body decodes to a mapping.
BodyIsMapping(answer) ==
    /\ answer.body \in DecodedTexts
    /\ Decoded[answer.body].ok
    /\ IsDict(Decoded[answer.body].val)

Body(answer) == Decoded[answer.body].val

FourKeySet == {FourKeys[i] : i \in 1..Len(FourKeys)}

\* The body is the fallback document: the fixed fields, confidence Low, and
\* one rationale entry that begins with the prefix.
IsFallbackBody(answer, prefix) ==
    /\ BodyIsMapping(answer)
    /\ KeySet(Body(answer)) = FourKeySet
    /\ Get(Body(answer), "confidence_level") = VStr(<<"Low">>)
    /\ Get(Body(answer), "gen_context_update") = Get(Fallback(<<>>), "gen_context_update")
    /\ Get(Body(answer), "domain_influence") = Get(Fallback(<<>>), "domain_influence")
    /\ Get(Body(answer), "assessment_rationale").t = "list"
    /\ Len(Get(Body(answer), "assessment_rationale").items) = 1
    /\ Get(Body(answer), "assessment_rationale").items[1].t = "str"
    /\ StartsWith(Get(Body(answer), "assessment_rationale").items[1].s, prefix)

\* C1: for every well-formed inbound text and every outcome of the call, the
\* response body decodes to a mapping whose top-level keys are exactly the
\* four keys of the assessment document.
C1_FourKeysAlways ==
    \A r \in Requests :
        (Done(r) /\ WellFormed(request[r]))
            => (BodyIsMapping(response[r]) /\ KeySet(Body(response[r])) = FourKeySet)

\* C2: an inbound text that decodes to a mapping without the general_question
\* key is answered with a 4xx status whose detail mentions the missing key.
C2_MissingKeyIsClientError ==
    \A r \in Requests :
        (Done(r) /\ LacksKey(request[r]))
            => (IsClientError(response[r]) /\ Contains(response[r].detail, MISSING))

\* C3: no call is posted for a request whose decoded text lacks the
\* general_question key; a posted call belongs to a request whose text decoded
\* to a mapping with the key.
C3_NoCallWithoutKey ==
    \A r \in Requests :
        /\ (pc[r] # "idle" /\ LacksKey(request[r])) => outbound[r] = <<>>
        /\ outbound[r] # <<>> => (pc[r] # "idle" /\ WellFormed(request[r]))

C3_Witness ==
    \E r \in Requests :
        Done(r) /\ request[r] = Unwrapped /\ outbound[r] = <<>> /\ response[r] # NoAnswer

\* C4: a non-success status of the completion endpoint is answered with a
\* success status and the fallback document, its one rationale entry beginning
\* "Agent processing error: Groq API error:".
C4_ErrorStatusFallsBack ==
    \A r \in Requests :
        (Done(r) /\ upstream[r].kind = "response" /\ upstream[r].status_code \notin 200..299)
            => /\ IsSuccess(response[r])
               /\ IsFallbackBody(response[r],
                                 <<"Agent processing error", COLON, SP, "Groq API error", COLON>>)

C4_Witness ==
    \E r \in Requests :
        /\ Done(r)
        /\ upstream[r] = ErrorResponse(401, ErrorBody, "no_choices")
        /\ IsSuccess(response[r])

\* The cleaned reply does not decode, or decodes to something that is no
\* mapping.
NoMapping(text) == text \in DecodedTexts /\ ~(Decoded[text].ok /\ IsDict(Decoded[text].val))

\* C5: a cleaned reply that fails to decode, or decodes to a scalar, a sequence
\* or null, is answered with the fallback document, its rationale entry
\* beginning "Agent processing error:"; the decoded value is not returned.
C5_UndecodableFallsBack ==
    \A r \in Requests :
        (Done(r) /\ cleaned[r] # <<>> /\ NoMapping(cleaned[r][1]))
            => /\ IsSuccess(response[r])
               /\ IsFallbackBody(response[r], <<"Agent processing error", COLON>>)

C5_Witness ==
    \E r, q \in Requests :
        /\ Done(r) /\ cleaned[r] = <<ReplyScalar>> /\ upstream[r].content # ReplyScalar
        /\ Done(q) /\ cleaned[q] = <<ReplyMalformed>>
        /\ IsSuccess(response[r]) /\ IsSuccess(response[q])

\* C6: whatever the call ends in, a request that was posted is answered with a
\* success status and a document: no failure of the call surfaces as 4xx or 5xx.
C6_UpstreamNeverFails ==
    \A r \in Requests :
        (Done(r) /\ outbound[r] # <<>>)
            => (response[r].status_code = 200 /\ BodyIsMapping(response[r]))

C6_Witness ==
    \E r, q \in Requests :
        /\ Done(r) /\ upstream[r].kind = "Timeout" /\ response[r].status_code = 200
        /\ Done(q) /\ upstream[q] = OkResponse("no_choices", <<>>)
        /\ response[q].status_code = 200

\* C7: an inbound text that fails to decode is answered with a 4xx status.
C7_UndecodableIsClientError ==
    \A r \in Requests :
        (Done(r) /\ ~Decoded[request[r]].ok) => IsClientError(response[r])

\* C8: a request posts at most one call, exactly one when its text is
\* well-formed; the end of the call posts no other.
C8_SingleCall ==
    \A r \in Requests :
        /\ Len(outbound[r]) <= 1
        /\ pc[r] # "idle" => Len(outbound[r]) = (IF WellFormed(request[r]) THEN 1 ELSE 0)

C8_Witness ==
    \E r, q \in Requests :
        /\ Done(r) /\ upstream[r].kind = "Timeout" /\ Len(outbound[r]) = 1
        /\ Done(q) /\ upstream[q].status_code = 503 /\ Len(outbound[q]) = 1

\* The cleaning the claim describes: the whitespace around the reply, a leading
\* marker with the language tag that follows it, a trailing marker.
WithoutOpening(s) ==
    IF s # <<>> /\ Head(s) = FENCE
    THEN IF Len(s) >= 2 /\ IsWord(s[2]) THEN Drop(s, 3) ELSE Tail(s)
    ELSE s

WithoutClosing(s) ==
    IF s # <<>> /\ s[Len(s)] = FENCE THEN SubSeq(s, 1, Len(s) - 1) ELSE s

OuterFencesStripped(raw) == Strip(WithoutClosing(WithoutOpening(Strip(raw))))

\* C9: the text handed to the decoder is the reply without its leading and
\* trailing fence marker (whatever the tag) and the whitespace around it; what
\* stands between the markers is unchanged.
C9_OnlyOuterFencesRemoved ==
    \A r \in Requests :
        (Done(r) /\ cleaned[r] # <<>>)
            => cleaned[r][1] = OuterFencesStripped(upstream[r].content)

\* What belongs to one request.
Locals(r) == <<pc[r], request[r], outbound[r], upstream[r], cleaned[r], response[r]>>

\* Two requests with the same text and the same outcome have the same call and
\* the same answer.
Determined ==
    \A r, q \in Requests :
        /\ (pc[r] # "idle" /\ pc[q] # "idle" /\ request[r] = request[q])
              => outbound[r] = outbound[q]
        /\ (Done(r) /\ Done(q) /\ request[r] = request[q] /\ upstream[r] = upstream[q])
              => response[r] = response[q]

\* A step is the step of one request and changes nothing of another; an
\* answered request changes no more; the credential and the endpoint stay.
OwnStateOnly ==
    /\ GROQ_API_KEY' = GROQ_API_KEY
    /\ GROQ_API_URL' = GROQ_API_URL
    /\ \E r \in Requests : \A q \in Requests \ {r} : Locals(q)' = Locals(q)
    /\ \A r \in Requests : Done(r) => Locals(r)' = Locals(r)

\* C10: under any interleaving the call and the answer of a request are
\* determined by its own text and the outcome of its own call, no step of a
\* request touches what belongs to another, and the credential and the
\* endpoint are never modified.
C10_RequestsIndependent == []Determined /\ [][OwnStateOnly]_vars

C10_Witness ==
    \E r, q \in Requests :
        /\ r # q
        /\ Done(r) /\ Done(q)
        /\ request[r] = WrappedDict /\ request[q] = WrappedScalar
        /\ upstream[r] = upstream[q] /\ upstream[r].kind = "response"
        /\ response[r] = response[q]

====
